---- MODULE Spec2Model ----
(***************************************************************************)
(* PIF+AI Lookup Relay (src/server.js): an Express server with two health  *)
(* routes and two data routes that proxy one upstream Apps Script call.    *)
(* JavaScript values are tagged records so that falsy values, absent       *)
(* fields and non-array shapes stay distinct.                              *)
(***************************************************************************)
EXTENDS Integers, Sequences, FiniteSets, TLC

(* ---------------- bounds ---------------- *)
\* concurrent connections the server is handling
NReq == 2
\* longest upstream data array
MaxRows == 6
\* longest upstream row
MaxCells == 5

(* ---------------- JavaScript values ---------------- *)
JUndef == [k |-> "undefined", s |-> "", n |-> 0]
JNull == [k |-> "null", s |-> "", n |-> 0]
JStr(str) == [k |-> "str", s |-> str, n |-> 0]
JNum(num) == [k |-> "num", s |-> "", n |-> num]
JBool(b) == [k |-> "bool", s |-> "", n |-> IF b THEN 1 ELSE 0]

\* ToBoolean of a scalar, as used by !x and x || y
Truthy(v) ==
  CASE v.k = "undefined" -> FALSE
    [] v.k = "null" -> FALSE
    [] v.k = "str" -> v.s # ""
    [] v.k = "num" -> v.n # 0
    [] v.k = "bool" -> v.n = 1
    [] OTHER -> TRUE

\* x || d
Or(v, d) == IF Truthy(v) THEN v ELSE d

SeqUpTo(S, n) == UNION {[1..m -> S] : m \in 0..n}

(* ---------------- rows and data ---------------- *)
\* an element of the data array: a JSON array of cells, or JSON null
ArrRow(cells) == [k |-> "arr", cells |-> cells]
NullRow == [k |-> "null", cells |-> <<>>]

\* row[i] with JavaScript's 0-based index; undefined past the end
At(row, i) == IF i < Len(row.cells) THEN row.cells[i + 1] ELSE JUndef

\* the value of result.data: absent, null, string, number, object or array
DUndef == [k |-> "undefined", s |-> "", n |-> 0, rows |-> <<>>]
DNull == [k |-> "null", s |-> "", n |-> 0, rows |-> <<>>]
DStr(str) == [k |-> "str", s |-> str, n |-> 0, rows |-> <<>>]
DNum(num) == [k |-> "num", s |-> "", n |-> num, rows |-> <<>>]
DObj == [k |-> "obj", s |-> "", n |-> 0, rows |-> <<>>]
DArr(rows) == [k |-> "arr", s |-> "", n |-> 0, rows |-> rows]

\* ToBoolean of result.data ("" and 0 are falsy, objects and arrays truthy)
DTruthy(d) ==
  CASE d.k = "undefined" -> FALSE
    [] d.k = "null" -> FALSE
    [] d.k = "str" -> d.s # ""
    [] d.k = "num" -> d.n # 0
    [] OTHER -> TRUE

(* ---------------- the column remap of /fetch-pif ---------------- *)
RemapRowRatingFromCol4(row) ==
  ArrRow(<< Or(At(row, 0), JStr("")), Or(At(row, 2), JStr("")),
            Or(At(row, 1), JStr("")), Or(At(row, 3), JStr("")),
            Or(At(row, 4), JStr("")) >>)

RemapRow(row) ==
  ArrRow(<< Or(At(row, 0), JStr("")), Or(At(row, 2), JStr("")),
            Or(At(row, 1), JStr("")), Or(At(row, 3), JStr("")),
            Or(At(row, 3), JStr("")) >>)

\* result.data.map(...): indexing a null element throws a TypeError
MapThrows(rows) == \E i \in 1..Len(rows) : rows[i].k = "null"

TransformData(rows) == [i \in 1..Len(rows) |-> RemapRow(rows[i])]

(* ---------------- the upstream call ---------------- *)
\* HTTP statuses the Apps Script endpoint answers with
Statuses == {200, 300, 503}

StatusText(st) ==
  CASE st = 200 -> "OK"
    [] st = 503 -> "Service Unavailable"
    [] st = 300 -> "Multiple Choices"
    [] OTHER -> ""

\* response.ok
Ok(st) == st >= 200 /\ st <= 299

\* the parsed envelope {success, error, data}
NoEnv == [success |-> JUndef, error |-> JUndef, data |-> DUndef]

\* what one fetch() call comes to: it rejects (network error, or the
\* 20 s timeout), or resolves with a status; response.json() is only read
\* on an OK status and then rejects ("invalid") or yields an envelope
Outcome(kind, st, json, env) ==
  [kind |-> kind, status |-> st, json |-> json, env |-> env]
NoOutcome == Outcome("none", 0, "unread", NoEnv)

(* ---------------- response bodies ---------------- *)
EmptyBody ==
  [keys |-> {}, status |-> "", success |-> JUndef, error |-> "",
   data |-> DUndef, count |-> 0, sample |-> DUndef, fullData |-> DUndef]

\* res.status(code).json(obj): JSON.stringify drops properties whose value
\* is undefined (only result.success can be)
ResJson(code, obj) ==
  [status |-> code, type |-> "json",
   body |-> [obj EXCEPT !.keys =
               {f \in obj.keys : ~(f = "success" /\ obj.success = JUndef)}]]

\* body of the default handler (error page or "Cannot GET ...")
ResHtml(code) == [status |-> code, type |-> "html", body |-> EmptyBody]
\* res.sendStatus(200)
ResText(code) == [status |-> code, type |-> "text", body |-> EmptyBody]
NoResponse == [status |-> 0, type |-> "none", body |-> EmptyBody]

\* messages of the errors thrown by node-fetch and by the engine
NetworkMsg == "request to upstream failed"
TimeoutMsg == "network timeout"
ParseMsg == "invalid json response body"
NullRowMsg == "Cannot read properties of null (reading '0')"
SliceMsg == "result.data?.slice is not a function"

RejectMsg(kind) == IF kind = "timeout" THEN TimeoutMsg ELSE NetworkMsg

(* ---------------- GET / and GET /health ---------------- *)
RootBody ==
  ResJson(200, [EmptyBody EXCEPT
    !.keys = {"status", "timestamp", "message", "service", "endpoints"},
    !.status = "ok"])

HealthBodyDown ==
  ResJson(503, [EmptyBody EXCEPT
    !.keys = {"status", "service", "timestamp"}, !.status = "down"])

HealthBody ==
  ResJson(200, [EmptyBody EXCEPT
    !.keys = {"status", "service", "timestamp"}, !.status = "ok"])

(* ---------------- GET /fetch-pif ---------------- *)
\* the catch block
FetchPifFailNoStamp(msg) ==
  ResJson(500, [EmptyBody EXCEPT
    !.keys = {"success", "error"},
    !.success = JBool(FALSE), !.error = msg])

FetchPifFail(msg) ==
  ResJson(500, [EmptyBody EXCEPT
    !.keys = {"success", "error", "timestamp", "elapsed"},
    !.success = JBool(FALSE), !.error = msg])

\* throw new Error(`Apps Script returned ${status}: ${statusText}`)
HttpErrorNoStatus(st) == "Apps Script returned an error: " \o StatusText(st)

HttpError(st) ==
  "Apps Script returned " \o ToString(st) \o ": " \o StatusText(st)

\* result.error || "Apps Script returned success: false"
UpstreamErrorDataFirst(r) ==
  IF r.data.k # "arr" THEN "Invalid data format from Apps Script"
  ELSE IF Truthy(r.error) THEN r.error.s
  ELSE "Apps Script returned success: false"

UpstreamError(r) ==
  IF Truthy(r.error) THEN r.error.s
  ELSE "Apps Script returned success: false"

\* the success response
FetchPifSuccessShortCount(rows) ==
  ResJson(200, [EmptyBody EXCEPT
    !.keys = {"success", "data", "count", "source", "timestamp", "elapsed"},
    !.success = JBool(TRUE),
    !.data = DArr(TransformData(rows)),
    !.count = IF Len(rows) > 1 THEN Len(rows) - 1 ELSE Len(rows)])

FetchPifSuccess(rows) ==
  ResJson(200, [EmptyBody EXCEPT
    !.keys = {"success", "data", "count", "source", "timestamp", "elapsed"},
    !.success = JBool(TRUE),
    !.data = DArr(TransformData(rows)),
    !.count = Len(TransformData(rows))])

\* the try block after a parsed body
FetchPifOnEnvelope(r) ==
  IF ~Truthy(r.success) THEN FetchPifFail(UpstreamError(r))
  ELSE IF ~DTruthy(r.data) \/ r.data.k # "arr"
    THEN FetchPifFail("Invalid data format from Apps Script")
  ELSE IF MapThrows(r.data.rows) THEN FetchPifFail(NullRowMsg)
  ELSE FetchPifSuccess(r.data.rows)

\* the whole handler as a function of what the upstream call came to
FetchPifRespond(o) ==
  IF o.kind # "http" THEN FetchPifFail(RejectMsg(o.kind))
  ELSE IF ~Ok(o.status) THEN FetchPifFail(HttpError(o.status))
  ELSE IF o.json = "invalid" THEN FetchPifFail(ParseMsg)
  ELSE FetchPifOnEnvelope(o.env)

(* ---------------- GET /fetch-pif-raw ---------------- *)
RawFail(msg) ==
  ResJson(500, [EmptyBody EXCEPT
    !.keys = {"success", "error"},
    !.success = JBool(FALSE), !.error = msg])

RawHttpError(st) == "Apps Script returned " \o ToString(st)

Min(a, b) == IF a < b THEN a ELSE b

\* result.data?.length || 0
DataLength(d) ==
  CASE d.k = "arr" -> Len(d.rows)
    [] d.k = "str" -> Len(d.s)
    [] OTHER -> 0

\* result.data?.slice is called on every non-nullish value
SliceThrows(d) == d.k \in {"num", "obj"}

\* result.data?.slice(0, 5) || []
SampleFirst4(d) ==
  CASE d.k = "arr" -> DArr(SubSeq(d.rows, 1, Min(4, Len(d.rows))))
    [] d.k = "str" /\ d.s # "" -> DStr(SubSeq(d.s, 1, Min(4, Len(d.s))))
    [] OTHER -> DArr(<<>>)

Sample(d) ==
  CASE d.k = "arr" -> DArr(SubSeq(d.rows, 1, Min(5, Len(d.rows))))
    [] d.k = "str" /\ d.s # "" -> DStr(SubSeq(d.s, 1, Min(5, Len(d.s))))
    [] OTHER -> DArr(<<>>)

\* result.data || []
FullData(d) == IF DTruthy(d) THEN d ELSE DArr(<<>>)

RawOnEnvelope(r) ==
  IF SliceThrows(r.data) THEN RawFail(SliceMsg)
  ELSE ResJson(200, [EmptyBody EXCEPT
    !.keys = {"success", "count", "sample", "fullData"},
    !.success = r.success,
    !.count = DataLength(r.data),
    !.sample = Sample(r.data),
    !.fullData = FullData(r.data)])

RawRespond(o) ==
  IF o.kind # "http" THEN RawFail(RejectMsg(o.kind))
  ELSE IF ~Ok(o.status) THEN RawFail(RawHttpError(o.status))
  ELSE IF o.json = "invalid" THEN RawFail(ParseMsg)
  ELSE RawOnEnvelope(o.env)

(* ---------------- inputs ---------------- *)
Methods == {"GET", "POST", "OPTIONS"}
Paths == {"/", "/health", "/fetch-pif", "/fetch-pif-raw", "/other"}
\* the request carries no body, or a JSON content type with a body that
\* does not parse
Bodies == {"none", "malformed"}
\* every GET, and the other methods on one data route
Requests ==
  {q \in [method : Methods, path : Paths, body : Bodies] :
     q.method = "GET" \/ (q.path = "/fetch-pif" /\ q.body = "none")}
NoRequest == [method |-> "", path |-> "", body |-> "none"]

\* the worked example of the documentation, a short row with a falsy cell,
\* and a null element
ExampleRow == ArrRow(<<JStr("x"), JStr("SYM"), JStr("Name"), JStr("4.5")>>)
ShortRow == ArrRow(<<JNum(0), JStr("AAA")>>)
FewRows == {ExampleRow, ShortRow, NullRow}
\* n rows that differ in their first cell
Numbered(n) ==
  [i \in 1..n |-> ArrRow(<<JNum(i), JStr("SYM"), JStr("Name"), JNum(0)>>)]

Datas ==
  {DUndef, DNull, DStr(""), DStr("not-an-array"), DNum(0), DNum(7), DObj}
    \cup {DArr(r) : r \in SeqUpTo(FewRows, 2)}
    \cup {DArr(Numbered(n)) : n \in 0..MaxRows}
SmallDatas ==
  {DUndef, DStr("not-an-array"), DArr(<<>>), DArr(<<ExampleRow>>)}
ErrorVals == {JUndef, JStr(""), JStr("quota exceeded")}

Envelopes ==
  {[success |-> JBool(TRUE), error |-> JUndef, data |-> d] : d \in Datas}
    \cup [success : {JBool(FALSE), JUndef}, error : ErrorVals,
          data : SmallDatas]

\* cells of the rows the remap is applied to on its own
Cells == {JNull, JNum(0), JStr(""), JStr("SYM"), JNum(45)}
UpstreamRows == {ArrRow(c) : c \in SeqUpTo(Cells, MaxCells)}

(* ---------------- middleware ---------------- *)
\* express.json(): a body that does not parse ends the request with the
\* default handler's 400 before any later middleware runs
JsonParserRejects(q) == q.body = "malformed"

CorsHeaders ==
  { <<"Access-Control-Allow-Origin", "*">>,
    <<"Access-Control-Allow-Methods", "GET, POST, OPTIONS">>,
    <<"Access-Control-Allow-Headers", "Content-Type">> }

\* headers on res when the response is written: the CORS middleware is
\* registered after express.json()
HeadersSet(q) == IF JsonParserRejects(q) THEN {} ELSE CorsHeaders

\* where the request ends up, in registration order
Route(q) ==
  CASE JsonParserRejects(q) -> "badRequest"
    [] q.body # "malformed" /\ q.method = "OPTIONS" -> "preflight"
    [] q.body # "malformed" /\ q.method = "GET" /\ q.path = "/" -> "root"
    [] q.body # "malformed" /\ q.method = "GET" /\ q.path = "/health"
         -> "health"
    [] q.body # "malformed" /\ q.method = "GET" /\ q.path = "/fetch-pif"
         -> "fetchPif"
    [] q.body # "malformed" /\ q.method = "GET" /\ q.path = "/fetch-pif-raw"
         -> "fetchPifRaw"
    [] OTHER -> "notFound"

(* ---------------- state ---------------- *)
VARIABLES
  slots,   \* per connection: where its handler stands, upstream calls made,
           \* responses written
  last,    \* the exchange completed most recently
  row,     \* an upstream row handed to the remap on its own
  relay    \* the relay row computed from it

vars == <<slots, last, row, relay>>

Slots == 1..NReq

IdleSlot ==
  [pc |-> "idle", req |-> NoRequest, status |-> 0, calls |-> 0, sent |-> 0]

NoLast ==
  [req |-> NoRequest, upstream |-> NoOutcome, headers |-> {},
   res |-> NoResponse, calls |-> 0, sent |-> 0]

NoRelay == ArrRow(<<>>)

Init ==
  /\ slots = [i \in Slots |-> IdleSlot]
  /\ last = NoLast
  /\ row = ArrRow(<<>>)
  /\ relay = NoRelay

\* the handler wrote its response: one res.json / res.sendStatus / default
\* handler write
Written(s) ==
  [s EXCEPT !.pc = "done", !.req = NoRequest, !.status = 0,
            !.sent = s.sent + 1]

\* a catch block that called fetch() again
CaughtRetry(s) == [s EXCEPT !.pc = "fetch", !.calls = s.calls + 1]

\* the catch block: respond, never call upstream again
Caught(s) == Written(s)

\* await fetch(...)
Called(s, q) == [s EXCEPT !.pc = "fetch", !.req = q, !.calls = s.calls + 1]

\* the exchange as the client and the upstream saw it, with the number of
\* upstream calls and of responses the request came to
Exchange(s, q, o, res) ==
  [req |-> q, upstream |-> o, headers |-> HeadersSet(q), res |-> res,
   calls |-> s.calls, sent |-> s.sent]

\* a request answered without leaving the event loop turn
Immediate(i, q, res) ==
  /\ slots[i].pc = "idle"
  /\ slots' = [slots EXCEPT ![i] = Written(slots[i])]
  /\ last' = Exchange(slots'[i], q, NoOutcome, res)
  /\ UNCHANGED <<row, relay>>

BadRequest(i, q) == Route(q) = "badRequest" /\ Immediate(i, q, ResHtml(400))
Preflight(i, q) == Route(q) = "preflight" /\ Immediate(i, q, ResText(200))
Root(i, q) == Route(q) = "root" /\ Immediate(i, q, RootBody)
Health(i, q) == Route(q) = "health" /\ Immediate(i, q, HealthBody)
NotFound(i, q) == Route(q) = "notFound" /\ Immediate(i, q, ResHtml(404))

\* a data route runs up to its fetch() call
StartFetch(i, q) ==
  /\ slots[i].pc = "idle"
  /\ Route(q) \in {"fetchPif", "fetchPifRaw"}
  /\ slots' = [slots EXCEPT ![i] = Called(slots[i], q)]
  /\ UNCHANGED <<last, row, relay>>

Respond(q, o) ==
  IF Route(q) = "fetchPif" THEN FetchPifRespond(o) ELSE RawRespond(o)

\* fetch() rejects, or resolves with a status that is not OK: the catch
\* block answers
FetchFailed(i) ==
  /\ slots[i].pc = "fetch"
  /\ \E o \in {Outcome("network", 0, "unread", NoEnv),
               Outcome("timeout", 0, "unread", NoEnv)}
            \cup {Outcome("http", st, "unread", NoEnv) :
                    st \in {t \in Statuses : ~Ok(t)}} :
       /\ slots' = [slots EXCEPT ![i] = Caught(slots[i])]
       /\ last' = Exchange(slots'[i], slots[i].req, o,
                            Respond(slots[i].req, o))
  /\ UNCHANGED <<row, relay>>

\* fetch() resolves with an OK status: the handler awaits response.json()
FetchOk(i) ==
  /\ slots[i].pc = "fetch"
  /\ \E st \in {t \in Statuses : Ok(t)} :
       slots' = [slots EXCEPT ![i] = [@ EXCEPT !.pc = "json", !.status = st]]
  /\ UNCHANGED <<last, row, relay>>

\* response.json() rejects: the catch block answers
JsonFailed(i) ==
  /\ slots[i].pc = "json"
  /\ LET o == Outcome("http", slots[i].status, "invalid", NoEnv) IN
       /\ slots' = [slots EXCEPT ![i] = Caught(slots[i])]
       /\ last' = Exchange(slots'[i], slots[i].req, o,
                            Respond(slots[i].req, o))
  /\ UNCHANGED <<row, relay>>

\* response.json() yields the envelope: the rest of the handler runs
JsonParsed(i) ==
  /\ slots[i].pc = "json"
  /\ \E r \in Envelopes :
       LET o == Outcome("http", slots[i].status, "envelope", r) IN
         /\ slots' = [slots EXCEPT ![i] = Written(slots[i])]
         /\ last' = Exchange(slots'[i], slots[i].req, o,
                            Respond(slots[i].req, o))
  /\ UNCHANGED <<row, relay>>

\* the connection is done with; the slot takes the next request
Close(i) ==
  /\ slots[i].pc = "done"
  /\ slots' = [slots EXCEPT ![i] = IdleSlot]
  /\ UNCHANGED <<last, row, relay>>

Next ==
  \/ \E i \in Slots, q \in Requests : BadRequest(i, q)
  \/ \E i \in Slots, q \in Requests : Preflight(i, q)
  \/ \E i \in Slots, q \in Requests : Root(i, q)
  \/ \E i \in Slots, q \in Requests : Health(i, q)
  \/ \E i \in Slots, q \in Requests : NotFound(i, q)
  \/ \E i \in Slots, q \in Requests : StartFetch(i, q)
  \/ \E i \in Slots : FetchFailed(i)
  \/ \E i \in Slots : FetchOk(i)
  \/ \E i \in Slots : JsonFailed(i)
  \/ \E i \in Slots : JsonParsed(i)
  \/ \E i \in Slots : Close(i)

Spec == Init /\ [][Next]_vars

(* ---------------- the remap on its own ---------------- *)
InitRemap ==
  /\ slots = [i \in Slots |-> IdleSlot]
  /\ last = NoLast
  /\ row \in UpstreamRows
  /\ relay = NoRelay

\* result.data.map applied to the one row
ApplyRemap ==
  /\ relay = NoRelay
  /\ relay' = RemapRow(row)
  /\ UNCHANGED <<slots, last, row>>

NextRemap == ApplyRemap

SpecRemap == InitRemap /\ [][NextRemap]_vars

(* ---------------- properties ---------------- *)
Contains(str, sub) ==
  \E i \in 1..(Len(str) - Len(sub) + 1) : SubSeq(str, i, i + Len(sub) - 1) = sub

Falsy(v) == v \in {JUndef, JNull, JNum(0), JStr(""), JBool(FALSE)}

\* r[i] or '', counting cells from 0
CellOrEmpty(r, i) ==
  IF i + 1 \in DOMAIN r.cells /\ ~Falsy(r.cells[i + 1])
    THEN r.cells[i + 1] ELSE JStr("")

ExpectedRelay(r) ==
  << CellOrEmpty(r, 0), CellOrEmpty(r, 2), CellOrEmpty(r, 1),
     CellOrEmpty(r, 3), CellOrEmpty(r, 3) >>

Responded == last.res.type # "none"
Answered(p) == Responded /\ last.req.method = "GET" /\ last.req.path = p
Accepted == last.req.body # "malformed"
UpOk == last.upstream.kind = "http" /\ last.upstream.status \in 200..299
UpEnvelope == UpOk /\ last.upstream.json = "envelope"
UpData == last.upstream.env.data
Body == last.res.body
InvalidFormatMsg == "Invalid data format from Apps Script"
GenericMsg == "Apps Script returned success: false"

\* C1: every upstream row r is remapped to exactly the five cells
\* [r[0] or '', r[2] or '', r[1] or '', r[3] or '', r[3] or ''], whatever
\* its cells and its length; cells 3 and 4 of the relay row are equal.
C1_RelayRow ==
  relay # NoRelay =>
    /\ relay.k = "arr"
    /\ relay.cells = ExpectedRelay(row)
    /\ Len(relay.cells) = 5
    /\ relay.cells[4] = relay.cells[5]

C1_Witness ==
  /\ row = ArrRow(<<JNum(0), JStr("SYM"), JNull>>)
  /\ relay = ArrRow(<<JStr(""), JStr(""), JStr("SYM"), JStr(""), JStr("")>>)

\* C2: an OK upstream answer whose envelope has success true and an array
\* of rows makes /fetch-pif answer 200 with success true, one relay row per
\* upstream row in the same order, and count the number of rows.
C2_FetchPifSuccess ==
  ( /\ Answered("/fetch-pif")
    /\ UpEnvelope
    /\ last.upstream.env.success = JBool(TRUE)
    /\ UpData.k = "arr"
    /\ \A i \in 1..Len(UpData.rows) : UpData.rows[i].k = "arr" )
  =>
    /\ last.res.status = 200
    /\ last.res.type = "json"
    /\ {"success", "data", "count"} \subseteq Body.keys
    /\ Body.success = JBool(TRUE)
    /\ Body.data.k = "arr"
    /\ Len(Body.data.rows) = Len(UpData.rows)
    /\ Body.count = Len(UpData.rows)
    /\ \A i \in 1..Len(UpData.rows) :
         Body.data.rows[i] = ArrRow(ExpectedRelay(UpData.rows[i]))

C2_Witness ==
  /\ Answered("/fetch-pif")
  /\ UpEnvelope
  /\ UpData = DArr(<<ExampleRow>>)
  /\ last.res.status = 200
  /\ Body.count = 1
  /\ Body.data = DArr(<<ArrRow(<<JStr("x"), JStr("Name"), JStr("SYM"),
                               JStr("4.5"), JStr("4.5")>>)>>)

\* C3: an upstream status outside the success range makes /fetch-pif answer
\* 500 with success false and an error that contains the status; the body
\* is not read and no data is returned.
C3_FetchPifHttpError ==
  ( /\ Answered("/fetch-pif")
    /\ last.upstream.kind = "http"
    /\ last.upstream.status \notin 200..299 )
  =>
    /\ last.res.status = 500
    /\ "success" \in Body.keys /\ Body.success = JBool(FALSE)
    /\ "error" \in Body.keys
    /\ Contains(Body.error, ToString(last.upstream.status))
    /\ "data" \notin Body.keys
    /\ last.upstream.json = "unread"

C3_Witness ==
  /\ Answered("/fetch-pif")
  /\ last.upstream.kind = "http" /\ last.upstream.status = 503
  /\ last.res.status = 500
  /\ Contains(Body.error, "503")

\* the part of C4 that does not depend on how the error message is chosen
C4_Failure ==
  /\ last.res.status = 500
  /\ "success" \in Body.keys /\ Body.success = JBool(FALSE)
  /\ "error" \in Body.keys
  /\ "data" \notin Body.keys
  /\ ( /\ last.upstream.env.success = JBool(TRUE)
       /\ UpData.k # "arr" ) => Body.error = InvalidFormatMsg

C4_Case ==
  /\ Answered("/fetch-pif")
  /\ UpEnvelope
  /\ \/ last.upstream.env.success = JBool(FALSE)
     \/ last.upstream.env.success = JBool(TRUE) /\ UpData.k # "arr"

\* C4 as stated: with success false the error is the upstream error whenever
\* one is present, and the generic message when it is absent.
C4_Original ==
  C4_Case =>
    /\ C4_Failure
    /\ last.upstream.env.success = JBool(FALSE) =>
         IF last.upstream.env.error.k # "undefined"
           THEN Body.error = last.upstream.env.error.s
           ELSE Body.error = GenericMsg

\* C4 (amended): an OK upstream answer whose envelope has success false, or
\* success true with data missing or not an array, makes /fetch-pif answer
\* 500 with success false and no data; with success false the error is the
\* upstream error when that is a non-empty string and the generic message
\* when it is absent or empty, whatever data is; with success true and bad
\* data the error is the invalid-format message.
C4_FetchPifEnvelopeError ==
  C4_Case =>
    /\ C4_Failure
    /\ last.upstream.env.success = JBool(FALSE) =>
         IF last.upstream.env.error.k = "str" /\ last.upstream.env.error.s # ""
           THEN Body.error = last.upstream.env.error.s
           ELSE Body.error = GenericMsg

C4_Witness ==
  /\ C4_Case
  /\ last.upstream.env.success = JBool(FALSE)
  /\ last.upstream.env.error = JStr("quota exceeded")
  /\ UpData.k # "arr"
  /\ last.res.status = 500
  /\ Body.error = "quota exceeded"

C5_Healthy ==
  /\ last.res.status = 200
  /\ last.res.type = "json"
  /\ "status" \in Body.keys /\ Body.status = "ok"
  /\ last.calls = 0
  /\ last.upstream.kind = "none"

\* C5 as stated: every GET / and GET /health is answered 200 with status
\* "ok" and without an upstream call.
C5_Original == (Answered("/") \/ Answered("/health")) => C5_Healthy

\* C5 (amended): every GET / and GET /health that the JSON body parser does
\* not reject is answered 200 with status "ok" and without an upstream call,
\* whatever the other connections are doing.
C5_HealthAlwaysOk ==
  ((Answered("/") \/ Answered("/health")) /\ Accepted) => C5_Healthy

C5_Witness ==
  /\ Answered("/health")
  /\ Accepted
  /\ last.res.status = 200
  /\ Body.status = "ok"
  /\ \E i \in Slots : slots[i].pc \in {"fetch", "json"}

\* the upstream call itself failed
CallFailed ==
  \/ last.upstream.kind \in {"network", "timeout"}
  \/ last.upstream.kind = "http" /\ last.upstream.status \notin 200..299
  \/ UpOk /\ last.upstream.json = "invalid"

\* the envelope is flagged as failed or has no array of rows
EnvelopeFailed ==
  /\ UpEnvelope
  /\ \/ ~Truthy(last.upstream.env.success)
     \/ UpData.k # "arr"

C6_Failed500 ==
  /\ last.res.status = 500
  /\ "success" \in Body.keys /\ Body.success = JBool(FALSE)

C6_NoRetry == \A i \in Slots : slots[i].calls <= 1 /\ slots[i].sent <= 1

\* C6 as stated: every request to a data route makes exactly one upstream
\* call and gets exactly one response, 200 or 500; any failure of the call,
\* a failed envelope included, gives 500 with success false; no retry.
C6_Original ==
  /\ C6_NoRetry
  /\ (Answered("/fetch-pif") \/ Answered("/fetch-pif-raw")) =>
       /\ last.calls = 1
       /\ last.sent = 1
       /\ last.res.status \in {200, 500}
       /\ (CallFailed \/ EnvelopeFailed) => C6_Failed500

\* C6 (amended): every GET to a data route that the JSON body parser does
\* not reject makes exactly one upstream call and gets exactly one response,
\* 200 or 500; a failure of the call (network error, timeout, status that is
\* not OK, body that does not parse) gives 500 with success false on both
\* routes, and an envelope flagged as failed or without an array of rows
\* gives 500 with success false on /fetch-pif; no connection ever makes a
\* second upstream call for one request.
C6_OneCallOneResponse ==
  /\ C6_NoRetry
  /\ ((Answered("/fetch-pif") \/ Answered("/fetch-pif-raw")) /\ Accepted) =>
       /\ last.calls = 1
       /\ last.sent = 1
       /\ last.res.status \in {200, 500}
       /\ CallFailed => C6_Failed500
       /\ (EnvelopeFailed /\ last.req.path = "/fetch-pif") => C6_Failed500

C6_Witness ==
  /\ Answered("/fetch-pif-raw")
  /\ last.upstream.kind = "timeout"
  /\ last.calls = 1 /\ last.sent = 1
  /\ last.res.status = 500

\* C7: an OK upstream answer whose data is an array of n rows makes
\* /fetch-pif-raw answer 200 with fullData the unmodified array, sample its
\* first min(5, n) rows, count n and success the upstream flag.
C7_RawPassThrough ==
  ( /\ Answered("/fetch-pif-raw")
    /\ UpEnvelope
    /\ UpData.k = "arr" )
  =>
    /\ last.res.status = 200
    /\ {"count", "sample", "fullData"} \subseteq Body.keys
    /\ Body.fullData = UpData
    /\ Body.count = Len(UpData.rows)
    /\ Body.sample.k = "arr"
    /\ Len(Body.sample.rows) = Min(5, Len(UpData.rows))
    /\ \A i \in 1..Len(Body.sample.rows) :
         Body.sample.rows[i] = UpData.rows[i]
    /\ Len(UpData.rows) <= 5 => Body.sample = Body.fullData
    /\ IF last.upstream.env.success = JUndef
         THEN "success" \notin Body.keys
         ELSE "success" \in Body.keys
                /\ Body.success = last.upstream.env.success

C7_Witness ==
  /\ Answered("/fetch-pif-raw")
  /\ UpEnvelope
  /\ UpData.k = "arr" /\ Len(UpData.rows) = 6
  /\ last.res.status = 200
  /\ Len(Body.sample.rows) = 5
  /\ Len(Body.fullData.rows) = 6

\* C8 as stated: /fetch-pif-raw answers 200 for every parsed envelope,
\* whatever success and data are, with count 0 and empty sample and fullData
\* when data is absent, and answers 500 only when the call itself failed.
C8_RawNeverValidates ==
  Answered("/fetch-pif-raw") =>
    /\ UpEnvelope =>
         /\ last.res.status = 200
         /\ UpData.k = "undefined" =>
              /\ Body.count = 0
              /\ Body.sample = DArr(<<>>)
              /\ Body.fullData = DArr(<<>>)
    /\ (Accepted /\ last.res.status = 500) => CallFailed

\* C9 as stated: every JSON response has a timestamp, and every 500 carries
\* success false, error, timestamp and elapsed.
C9_Original ==
  /\ last.res.type = "json" => "timestamp" \in Body.keys
  /\ last.res.status = 500 =>
       /\ {"success", "error", "timestamp", "elapsed"} \subseteq Body.keys
       /\ Body.success = JBool(FALSE)

\* C9 (amended): every JSON response of /, /health and /fetch-pif has a
\* timestamp, and every 500 of /fetch-pif carries success false, error,
\* timestamp and elapsed; the responses of /fetch-pif-raw have no timestamp
\* and its 500 carries success false and error only.
C9_Timestamps ==
  /\ (last.res.type = "json" /\ last.req.path # "/fetch-pif-raw") =>
       "timestamp" \in Body.keys
  /\ (last.res.status = 500 /\ last.req.path = "/fetch-pif") =>
       /\ {"success", "error", "timestamp", "elapsed"} \subseteq Body.keys
       /\ Body.success = JBool(FALSE)
  /\ (last.res.type = "json" /\ last.req.path = "/fetch-pif-raw") =>
       "timestamp" \notin Body.keys
  /\ (last.res.status = 500 /\ last.req.path = "/fetch-pif-raw") =>
       /\ Body.keys = {"success", "error"}
       /\ Body.success = JBool(FALSE)

C9_Witness ==
  /\ Answered("/fetch-pif")
  /\ last.upstream.kind = "network"
  /\ last.res.status = 500
  /\ Body.keys = {"success", "error", "timestamp", "elapsed"}

\* C10 as stated: every response to a request that is not OPTIONS carries
\* the three CORS headers, a request rejected by the JSON body parser
\* included.
C10_CorsOnEveryResponse ==
  (Responded /\ last.req.method # "OPTIONS") =>
    CorsHeaders \subseteq last.headers

====
